---- MODULE Spec2Model ----
(***************************************************************************)
(* binance_testnet_bot.py: the interactive shell (main, print_menu,        *)
(* get_user_input) driving the BasicBot facade over the exchange client.   *)
(*                                                                         *)
(* Text is modelled as a sequence of one-character strings, so that the    *)
(* conversions of the code (float(), int(), str.upper(), the substring     *)
(* test of the placeholder check) are computed character by character.     *)
(* A float is modelled by its exact decimal value in units of              *)
(* 10^-FracDigits; every numeric line of at most MaxLen characters has at  *)
(* most FracDigits fractional digits, so no two distinct values collide.   *)
(*                                                                         *)
(* One action runs the code from one blocking point (an input() call, an   *)
(* adapter call) to the next.  When print_menu() is reached again the      *)
(* locals of the finished iteration are dead: they are reset, and the      *)
(* window of log records kept in the state restarts.                       *)
(*                                                                         *)
(* Exceptions are the Exception subclasses the calls can raise; signals    *)
(* (KeyboardInterrupt) are not part of the model.                          *)
(***************************************************************************)
EXTENDS Integers, Sequences, FiniteSets, TLC

VARIABLES
    pc,           \* position of the process: main, construct, verify_time,
                  \* verify_account, menu, collect, dispatch, adapter, result, exit
    apiKey,       \* API_KEY of main()
    apiSecret,    \* API_SECRET of main()
    startupCalls, \* adapter calls made while the bot is constructed, in order
    choice,       \* the menu line of the loop iteration in progress
    args,         \* the values get_user_input has returned in this iteration
    attempts,     \* consecutive failed reads of the field being prompted for
    request,      \* the adapter call the facade has issued in this iteration
    result,       \* the value the facade operation returned to main()
    log,          \* logger records emitted since the last prompt of the menu
                  \* (since the start of the process, before the first menu)
    notice,       \* what the last step printed besides prompts
    exitCode      \* status the process ends with (read when pc = "exit")

vars == <<pc, apiKey, apiSecret, startupCalls, choice, args, attempts,
          request, result, log, notice, exitCode>>

----------------------------------------------------------------------------
(* Bounds *)

\* longest line typed at a numeric prompt
MaxLen == 2
\* consecutive failed reads of one field that are counted
MaxAttempts == 2
\* longest credential, in words, of an edited configuration
MaxCredLen == 1

FracDigits == MaxLen - 1

----------------------------------------------------------------------------
(* Text *)

SeqsUpTo(A, n) == UNION {[1..k -> A] : k \in 0..n}

RECURSIVE Pow10(_)
Pow10(n) == IF n = 0 THEN 1 ELSE 10 * Pow10(n - 1)

DigitChars == <<"0", "1", "2", "3", "4", "5", "6", "7", "8", "9">>
LowerLetters == <<"a", "b", "c", "d", "e", "f", "g", "h", "i", "j", "k", "l", "m",
                  "n", "o", "p", "q", "r", "s", "t", "u", "v", "w", "x", "y", "z">>
UpperLetters == <<"A", "B", "C", "D", "E", "F", "G", "H", "I", "J", "K", "L", "M",
                  "N", "O", "P", "Q", "R", "S", "T", "U", "V", "W", "X", "Y", "Z">>

IsDigit(c) == \E i \in DOMAIN DigitChars : DigitChars[i] = c
DigitVal(c) == (CHOOSE i \in DOMAIN DigitChars : DigitChars[i] = c) - 1

RECURSIVE DigitsVal(_)
DigitsVal(s) ==
    IF s = <<>> THEN 0
    ELSE 10 * DigitsVal(SubSeq(s, 1, Len(s) - 1)) + DigitVal(s[Len(s)])

\* str.upper() on ASCII text
UpperChar(c) ==
    IF \E i \in DOMAIN LowerLetters : LowerLetters[i] = c
    THEN UpperLetters[CHOOSE i \in DOMAIN LowerLetters : LowerLetters[i] = c]
    ELSE c
Upper(s) == [i \in DOMAIN s |-> UpperChar(s[i])]

\* `needle in hay` for str
Contains(hay, needle) ==
    \E i \in 0..(Len(hay) - Len(needle)) :
        SubSeq(hay, i + 1, i + Len(needle)) = needle

----------------------------------------------------------------------------
(* float() and int() of a typed line.  The lines of the model are over     *)
(* NumChars: an optional sign, decimal digits, at most one point.          *)

HasSign(s) == s # <<>> /\ s[1] \in {"-", "+"}
Unsigned(s) == IF HasSign(s) THEN Tail(s) ELSE s
SignOf(s) == IF s # <<>> /\ s[1] = "-" THEN -1 ELSE 1

PointsOf(u) == {i \in DOMAIN u : u[i] = "."}
PointAt(u) == IF PointsOf(u) = {} THEN Len(u) + 1 ELSE CHOOSE i \in PointsOf(u) : TRUE
IntPart(u) == SubSeq(u, 1, PointAt(u) - 1)
FracPart(u) == SubSeq(u, PointAt(u) + 1, Len(u))

IsIntLiteral(s) ==
    LET u == Unsigned(s)
    IN  u # <<>> /\ \A i \in DOMAIN u : IsDigit(u[i])

IsFloatLiteral(s) ==
    LET u == Unsigned(s)
    IN  /\ Cardinality(PointsOf(u)) <= 1
        /\ \A i \in DOMAIN u : IsDigit(u[i]) \/ u[i] = "."
        /\ \E i \in DOMAIN u : IsDigit(u[i])

IntOf(s) == SignOf(s) * DigitsVal(Unsigned(s))

FloatOf(s) ==
    LET u == Unsigned(s)
    IN  SignOf(s) * (DigitsVal(IntPart(u)) * Pow10(FracDigits)
                     + DigitsVal(FracPart(u)) * Pow10(FracDigits - Len(FracPart(u))))

\* input_type(user_input) at line 239: the value, or the exception raised
Coerce(input_type, line) ==
    CASE input_type = "str" -> [raised |-> "none", value |-> line]
      [] input_type = "float" ->
            IF IsFloatLiteral(line)
            THEN [raised |-> "none", value |-> FloatOf(line)]
            ELSE [raised |-> "ValueError", value |-> 0]
      [] input_type = "int" ->
            IF IsIntLiteral(line)
            THEN [raised |-> "none", value |-> IntOf(line)]
            ELSE [raised |-> "ValueError", value |-> 0]

----------------------------------------------------------------------------
(* Exceptions *)

ParentClass(cls) ==
    CASE cls = "BinanceAPIException" -> "Exception"
      [] cls = "BinanceOrderException" -> "Exception"
      [] cls = "RequestException" -> "Exception"
      [] cls = "ValueError" -> "Exception"
      [] cls = "EOFError" -> "Exception"
      [] cls = "TypeError" -> "Exception"
      [] cls = "Exception" -> "BaseException"
      [] cls = "SystemExit" -> "BaseException"
      [] OTHER -> "object"

RECURSIVE IsInstance(_, _)
IsInstance(cls, base) ==
    \/ cls = base
    \/ cls \notin {"BaseException", "object"} /\ IsInstance(ParentClass(cls), base)

\* str(e)
StrOfException(e) ==
    CASE e.cls = "BinanceAPIException" -> <<"APIError(code=", e.code, "): ", e.message>>
      [] e.cls = "BinanceOrderException" ->
            <<"BinanceOrderException(code=", e.code, "): ", e.message>>
      [] OTHER -> IF e.message = "" THEN <<>> ELSE <<e.message>>

----------------------------------------------------------------------------
(* What the environment can supply *)

NumChars == {"0", "1", "-", ".", "x"}
NumLines == SeqsUpTo(NumChars, MaxLen)
SymbolLines == {<<"B", "T", "C", "U", "S", "D", "T">>, <<"e", "t", "h">>}
SideLines == {<<"b", "u", "y">>, <<"B", "U", "Y">>, <<"S", "e", "l", "l">>}
MenuLines == {<<"1">>, <<"2">>, <<"3">>, <<"4">>, <<"5">>, <<"6">>, <<"7">>,
              <<"8">>, <<"x">>, <<>>}

\* exceptions the client library raises: [cls, code, message]
PermissionDenied ==
    [cls |-> "BinanceAPIException", code |-> -2015,
     message |-> "Invalid API-key, IP, or permissions for action."]
AdapterErrors ==
    { PermissionDenied,
      [cls |-> "BinanceAPIException", code |-> -1121, message |-> "Invalid symbol."],
      [cls |-> "BinanceOrderException", code |-> -1013, message |-> "Invalid quantity"],
      [cls |-> "RequestException", code |-> 0, message |-> "Connection aborted."],
      [cls |-> "Exception", code |-> 0, message |-> ""] }

\* responses of the exchange, as the client library decodes them
Payloads == { [orderId |-> 1, status |-> "NEW"], [balance |-> 100] }
ServerTimes == { [serverTime |-> 1700000000] }

\* an adapter call returns a payload or raises one of the exceptions
AdapterOutcomes == Payloads \cup AdapterErrors
Raised(o) == "cls" \in DOMAIN o

----------------------------------------------------------------------------
(* Configuration: main(), lines 251-265 *)

KeyPlaceholder == <<"YOUR_NEW_API_KEY_HERE">>
SecretPlaceholder == <<"YOUR_NEW_API_SECRET_HERE">>
API_KEY == <<"AgiQY0lSt4pobLprbc14MfD2xmHZt43NKFTauvNK1JyJkIMsCDyLRO5ExWFYbR88">>
API_SECRET == <<"07CklPsGufBY9gWNQEiPyFXTQXbyXmowwAEyg8hY96qDKLynRphsGgeMaJEx6ecy">>

\* the condition of the `if` at line 254
KeysNotSet(key, secret) ==
    Contains(key, KeyPlaceholder) \/ Contains(secret, SecretPlaceholder)

----------------------------------------------------------------------------
(* Logging *)

LogRecord(level, text, data) == [level |-> level, text |-> text, data |-> data]

NoRequest == [fn |-> "none"]
NoResult == [none |-> TRUE]

----------------------------------------------------------------------------
(* Exception handlers *)

\* the first `except` clause of a try statement that matches, or "none"
RECURSIVE HandlerOf(_, _)
HandlerOf(clauses, cls) ==
    IF clauses = <<>> THEN "none"
    ELSE IF IsInstance(cls, Head(clauses)) THEN Head(clauses)
    ELSE HandlerOf(Tail(clauses), cls)

\* get_user_input without its handlers
GetUserInputClausesNone == <<>>

\* get_user_input, lines 240-243
GetUserInputClauses == <<"ValueError", "Exception">>

\* a main loop that catches input errors only
MainLoopClausesNarrow == <<"ValueError">>

\* the main loop, line 330
MainLoopClauses == <<"Exception">>

\* BasicBot.__init__, line 50
InitClauses == <<"Exception">>

\* a bare `except:` around the construction of the bot
MainInitClausesBare == <<"BaseException">>

\* main() around the construction of the bot, line 269
MainInitClauses == <<"Exception">>

\* the query operations without their catch-all clause
ExceptClausesApiOnly(c) ==
    IF c \in {<<"1">>, <<"2">>, <<"3">>}
    THEN <<"BinanceAPIException", "BinanceOrderException", "Exception">>
    ELSE <<"BinanceAPIException">>

\* the facade operations: lines 93-99, 120-126, 154-160 and 175-178, 194-197, 210-213
ExceptClauses(c) ==
    IF c \in {<<"1">>, <<"2">>, <<"3">>}
    THEN <<"BinanceAPIException", "BinanceOrderException", "Exception">>
    ELSE <<"BinanceAPIException", "Exception">>

----------------------------------------------------------------------------
(* Control *)

\* back at print_menu(), blocked on input(): the locals of the iteration are
\* dead and the log window restarts
ToMenu(printed) ==
    /\ pc' = "menu"
    /\ choice' = <<>>
    /\ args' = <<>>
    /\ attempts' = 0
    /\ request' = NoRequest
    /\ result' = NoResult
    /\ log' = <<>>
    /\ notice' = printed
    /\ UNCHANGED exitCode

\* an exception of class cls raised inside the `try` of the main loop
LoopRaise(cls) ==
    IF HandlerOf(MainLoopClauses, cls) # "none"
    THEN ToMenu("main_loop_error")
    ELSE /\ pc' = "exit"
         /\ exitCode' = 1
         /\ notice' = "traceback"
         /\ UNCHANGED <<choice, args, attempts, request, result, log>>

Init ==
    /\ pc = "main"
    /\ apiKey = API_KEY
    /\ apiSecret = API_SECRET
    /\ startupCalls = <<>>
    /\ choice = <<>>
    /\ args = <<>>
    /\ attempts = 0
    /\ request = NoRequest
    /\ result = NoResult
    /\ log = <<>>
    /\ notice = "none"
    /\ exitCode = 0

\* main(), lines 254-265
CheckConfig ==
    /\ pc = "main"
    /\ IF KeysNotSet(apiKey, apiSecret)
       THEN /\ notice' = "config_error"
            /\ log' = Append(log, LogRecord("ERROR", "API keys not set. Exiting.", <<>>))
            /\ pc' = "exit"
            /\ exitCode' = 1
       ELSE /\ pc' = "construct"
            /\ UNCHANGED <<notice, log, exitCode>>
    /\ UNCHANGED <<apiKey, apiSecret, startupCalls, choice, args, attempts, request, result>>

\* the exception that leaves BasicBot.__init__ when e is raised inside its try
ConstructorRaises(e) ==
    IF HandlerOf(InitClauses, e.cls) # "none" THEN "SystemExit" ELSE e.cls

\* lines 50-52, then main()'s handler at 269-277 or the end of the process
InitFailure(e, records) ==
    /\ log' = IF HandlerOf(InitClauses, e.cls) # "none"
              THEN Append(log \o records,
                          LogRecord("ERROR", "Error during bot initialization: ",
                                    <<StrOfException(e)>>))
              ELSE log \o records
    /\ pc' = "exit"
    /\ IF HandlerOf(MainInitClauses, ConstructorRaises(e)) # "none"
       THEN notice' = "init_failed" /\ exitCode' = 0
       ELSE notice' = "none" /\ exitCode' = 1

\* the records _verify_connection logs before it re-raises e, lines 65-76
VerifyRecords(e, accountCall) ==
    (IF accountCall /\ IsInstance(e.cls, "BinanceAPIException") /\ e.code = -2015
     THEN << LogRecord("ERROR",
                "API key doesn't have futures permissions or IP not whitelisted", <<>>),
             LogRecord("ERROR",
                "Please create a new API key with 'Enable Futures' checked", <<>>) >>
     ELSE <<>>)
    \o
    (IF IsInstance(e.cls, "BinanceAPIException")
     THEN << LogRecord("ERROR", "Error verifying connection: ", <<StrOfException(e)>>) >>
     ELSE IF IsInstance(e.cls, "RequestException")
     THEN << LogRecord("ERROR", "Network error verifying connection: ",
                       <<StrOfException(e)>>) >>
     ELSE <<>>)

\* BasicBot.__init__, lines 36-46: Client(api_key, api_secret, testnet=True)
ConstructClient(o) ==
    /\ pc = "construct"
    /\ startupCalls' = Append(startupCalls, "Client")
    /\ IF Raised(o)
       THEN InitFailure(o, <<>>)
       ELSE /\ log' = Append(log, LogRecord("INFO",
                                "Bot initialized successfully. Testnet: ", <<TRUE>>))
            /\ pc' = "verify_time"
            /\ UNCHANGED <<notice, exitCode>>
    /\ UNCHANGED <<apiKey, apiSecret, choice, args, attempts, request, result>>

\* _verify_connection, lines 58-59: futures_time()
VerifyTime(o) ==
    /\ pc = "verify_time"
    /\ startupCalls' = Append(startupCalls, "futures_time")
    /\ IF Raised(o)
       THEN InitFailure(o, VerifyRecords(o, FALSE))
       ELSE /\ log' = Append(log, LogRecord("INFO",
                                "Connection verified. Server time: ", <<o.serverTime>>))
            /\ pc' = "verify_account"
            /\ UNCHANGED <<notice, exitCode>>
    /\ UNCHANGED <<apiKey, apiSecret, choice, args, attempts, request, result>>

\* _verify_connection, lines 62-69: futures_account(); then print_menu()
VerifyAccount(o) ==
    /\ pc = "verify_account"
    /\ startupCalls' = Append(startupCalls, "futures_account")
    /\ IF Raised(o)
       THEN /\ InitFailure(o, VerifyRecords(o, TRUE))
            /\ UNCHANGED <<choice, args, attempts, request, result>>
       ELSE ToMenu("none")
    /\ UNCHANGED <<apiKey, apiSecret>>

----------------------------------------------------------------------------
(* The interactive loop, lines 279-332 *)

Field(name, type) == [name |-> name, type |-> type]

\* the get_user_input calls of each branch of the loop, in order
Prompts(c) ==
    CASE c = <<"1">> -> << Field("symbol", "str"), Field("side", "str"),
                           Field("quantity", "float") >>
      [] c = <<"2">> -> << Field("symbol", "str"), Field("side", "str"),
                           Field("quantity", "float"), Field("price", "float") >>
      [] c = <<"3">> -> << Field("symbol", "str"), Field("side", "str"),
                           Field("quantity", "float"), Field("stop_price", "float"),
                           Field("limit_price", "float") >>
      [] c = <<"4">> -> << Field("symbol", "str"), Field("order_id", "int") >>
      [] c = <<"5">> -> << Field("symbol", "str"), Field("order_id", "int") >>
      [] OTHER -> <<>>

\* the field get_user_input is prompting for
CurrentField == Prompts(choice)[Len(args) + 1]

LinesFor(f) ==
    CASE f.name = "symbol" -> SymbolLines
      [] f.name = "side" -> SideLines
      [] OTHER -> NumLines

\* print_menu() returns line: the if/elif chain of lines 283-328
ReadChoice(line) ==
    /\ pc = "menu"
    /\ IF line \in {<<"1">>, <<"2">>, <<"3">>, <<"4">>, <<"5">>}
       THEN /\ pc' = "collect"
            /\ choice' = line
            /\ notice' = "none"
            /\ UNCHANGED <<args, attempts, request, result, log, exitCode>>
       ELSE IF line = <<"6">>
       THEN /\ pc' = "dispatch"
            /\ choice' = line
            /\ notice' = "none"
            /\ UNCHANGED <<args, attempts, request, result, log, exitCode>>
       ELSE IF line = <<"7">>
       THEN /\ pc' = "exit"
            /\ choice' = line
            /\ notice' = "exiting"
            /\ log' = Append(log, LogRecord("INFO", "Bot shutdown by user", <<>>))
            /\ exitCode' = 0
            /\ UNCHANGED <<args, attempts, request, result>>
       ELSE ToMenu("invalid_choice")
    /\ UNCHANGED <<apiKey, apiSecret, startupCalls>>

\* input() of print_menu() raises (end of input)
ReadChoiceFails ==
    /\ pc = "menu"
    /\ LoopRaise("EOFError")
    /\ UNCHANGED <<apiKey, apiSecret, startupCalls>>

InvalidNotice(input_type) ==
    CASE input_type = "float" -> "invalid_float"
      [] input_type = "int" -> "invalid_int"
      [] OTHER -> "invalid_str"

\* an exception of class cls raised inside the try of get_user_input
InputRaise(cls) ==
    LET h == HandlerOf(GetUserInputClauses, cls)
    IN  IF h = "none"
        THEN LoopRaise(cls)
        ELSE /\ attempts < MaxAttempts
             /\ attempts' = attempts + 1
             /\ notice' = IF h = "ValueError" THEN InvalidNotice(CurrentField.type)
                          ELSE "input_error"
             /\ UNCHANGED <<pc, choice, args, request, result, log, exitCode>>

\* the value main() binds to the field: `.upper()` on the side, lines 285, 292, 300
Bound(f, value) == IF f.name = "side" THEN Upper(value) ELSE value

\* get_user_input after input_type(user_input), with c what the coercion gave:
\* the value is returned and bound, or the exception goes to the handlers
AfterCoercion(c) ==
    IF c.raised = "none"
    THEN /\ args' = Append(args, Bound(CurrentField, c.value))
         /\ attempts' = 0
         /\ notice' = "none"
         /\ pc' = IF Len(args) + 1 = Len(Prompts(choice)) THEN "dispatch" ELSE "collect"
         /\ UNCHANGED <<choice, request, result, log, exitCode>>
    ELSE InputRaise(c.raised)

\* get_user_input reads line for the current field, lines 236-243
ReadField(line) ==
    /\ pc = "collect"
    /\ line \in LinesFor(CurrentField)
    /\ AfterCoercion(Coerce(CurrentField.type, line))
    /\ UNCHANGED <<apiKey, apiSecret, startupCalls>>

\* input() of get_user_input raises (end of input)
ReadFieldFails ==
    /\ pc = "collect"
    /\ InputRaise("EOFError")
    /\ UNCHANGED <<apiKey, apiSecret, startupCalls>>

----------------------------------------------------------------------------
(* The facade, lines 78-215 *)

OpName(c) ==
    CASE c = <<"1">> -> "place_market_order"
      [] c = <<"2">> -> "place_limit_order"
      [] c = <<"3">> -> "place_stop_limit_order"
      [] c = <<"4">> -> "get_order_status"
      [] c = <<"5">> -> "cancel_order"
      [] c = <<"6">> -> "get_account_balance"
      [] OTHER -> "none"

\* the stop-limit call with its two prices exchanged
BuildRequestSwapped(c, a) ==
    CASE c = <<"1">> ->
            [fn |-> "futures_create_order", symbol |-> a[1], side |-> a[2],
             type |-> "MARKET", quantity |-> a[3]]
      [] c = <<"2">> ->
            [fn |-> "futures_create_order", symbol |-> a[1], side |-> a[2],
             type |-> "LIMIT", timeInForce |-> "GTC", quantity |-> a[3],
             price |-> a[4]]
      [] c = <<"3">> ->
            [fn |-> "futures_create_order", symbol |-> a[1], side |-> a[2],
             type |-> "STOP", timeInForce |-> "GTC", quantity |-> a[3],
             price |-> a[4], stopPrice |-> a[5]]
      [] c = <<"4">> -> [fn |-> "futures_get_order", symbol |-> a[1], orderId |-> a[2]]
      [] c = <<"5">> -> [fn |-> "futures_cancel_order", symbol |-> a[1], orderId |-> a[2]]
      [] c = <<"6">> -> [fn |-> "futures_account_balance"]

\* the keyword arguments of the client call each operation makes
BuildRequest(c, a) ==
    CASE c = <<"1">> ->
            [fn |-> "futures_create_order", symbol |-> a[1], side |-> a[2],
             type |-> "MARKET", quantity |-> a[3]]
      [] c = <<"2">> ->
            [fn |-> "futures_create_order", symbol |-> a[1], side |-> a[2],
             type |-> "LIMIT", timeInForce |-> "GTC", quantity |-> a[3],
             price |-> a[4]]
      [] c = <<"3">> ->
            [fn |-> "futures_create_order", symbol |-> a[1], side |-> a[2],
             type |-> "STOP", timeInForce |-> "GTC", quantity |-> a[3],
             price |-> a[5], stopPrice |-> a[4]]
      [] c = <<"4">> -> [fn |-> "futures_get_order", symbol |-> a[1], orderId |-> a[2]]
      [] c = <<"5">> -> [fn |-> "futures_cancel_order", symbol |-> a[1], orderId |-> a[2]]
      [] c = <<"6">> -> [fn |-> "futures_account_balance"]

\* the record logged on entry, lines 82-83, 107-108, 134-141, 168, 186, 205
RequestRecord(c, a) ==
    CASE c = <<"1">> ->
            LogRecord("INFO", "Placing MARKET order: ",
                      << [symbol |-> a[1], side |-> a[2], quantity |-> a[3]] >>)
      [] c = <<"2">> ->
            LogRecord("INFO", "Placing LIMIT order: ",
                      << [symbol |-> a[1], side |-> a[2], quantity |-> a[3],
                          price |-> a[4]] >>)
      [] c = <<"3">> ->
            LogRecord("INFO", "Placing STOP_LIMIT order: ",
                      << [symbol |-> a[1], side |-> a[2], quantity |-> a[3],
                          stop_price |-> a[4], limit_price |-> a[5]] >>)
      [] c = <<"4">> ->
            LogRecord("INFO", "Getting order status for Order ID {} on {}", <<a[2], a[1]>>)
      [] c = <<"5">> ->
            LogRecord("INFO", "Cancelling Order ID {} on {}", <<a[2], a[1]>>)
      [] c = <<"6">> -> LogRecord("INFO", "Getting account balance...", <<>>)

\* the records logged when the client call returns: lines 91, 118, 152, 192;
\* get_order_status and get_account_balance log none
ResponseRecords(c, payload) ==
    CASE c = <<"1">> ->
            << LogRecord("INFO", "Successfully placed MARKET order. Response: ", <<payload>>) >>
      [] c = <<"2">> ->
            << LogRecord("INFO", "Successfully placed LIMIT order. Response: ", <<payload>>) >>
      [] c = <<"3">> ->
            << LogRecord("INFO", "Successfully placed STOP_LIMIT order. Response: ",
                         <<payload>>) >>
      [] c = <<"5">> ->
            << LogRecord("INFO", "Successfully cancelled order. Response: ", <<payload>>) >>
      [] OTHER -> <<>>

\* the record logged by the except clause `clause` of operation c
ErrorRecord(c, clause, e) ==
    LogRecord("ERROR", "{clause} error in {operation}: {e}",
              <<clause, OpName(c), StrOfException(e)>>)

\* `return {"error": str(e)}`
ErrorResult(e) == [error |-> StrOfException(e)]

\* a facade that wraps the payload it returns
SuccessResultWrapped(payload) == [response |-> payload]

\* `return order` and its like: lines 92, 119, 153, 174, 193, 209
SuccessResult(payload) == payload

\* main() calls the facade operation, which logs and calls the client
Invoke ==
    /\ pc = "dispatch"
    /\ log' = Append(log, RequestRecord(choice, args))
    /\ request' = BuildRequest(choice, args)
    /\ pc' = "adapter"
    /\ notice' = "none"
    /\ UNCHANGED <<apiKey, apiSecret, startupCalls, choice, args, attempts, result,
                   exitCode>>

\* the client call returns or raises and the facade operation finishes
AdapterReturn(o) ==
    /\ pc = "adapter"
    /\ IF ~Raised(o)
       THEN /\ result' = SuccessResult(o)
            /\ log' = log \o ResponseRecords(choice, o)
            /\ pc' = "result"
            /\ notice' = "none"
            /\ UNCHANGED <<choice, args, attempts, request, exitCode>>
       ELSE LET clause == HandlerOf(ExceptClauses(choice), o.cls)
            IN  IF clause # "none"
                THEN /\ result' = ErrorResult(o)
                     /\ log' = Append(log, ErrorRecord(choice, clause, o))
                     /\ pc' = "result"
                     /\ notice' = "none"
                     /\ UNCHANGED <<choice, args, attempts, request, exitCode>>
                ELSE LoopRaise(o.cls)
    /\ UNCHANGED <<apiKey, apiSecret, startupCalls>>

\* print(json.dumps(result, indent=2)), then the next print_menu()
ShowResult(raises) ==
    /\ pc = "result"
    /\ IF raises = "none" THEN ToMenu("result") ELSE LoopRaise(raises)
    /\ UNCHANGED <<apiKey, apiSecret, startupCalls>>

----------------------------------------------------------------------------

Next ==
    \/ CheckConfig
    \/ \E o \in {[ok |-> TRUE]} \cup AdapterErrors : ConstructClient(o)
    \/ \E o \in ServerTimes \cup AdapterErrors : VerifyTime(o)
    \/ \E o \in AdapterOutcomes : VerifyAccount(o)
    \/ \E line \in MenuLines : ReadChoice(line)
    \/ ReadChoiceFails
    \/ \E line \in NumLines \cup SymbolLines \cup SideLines : ReadField(line)
    \/ ReadFieldFails
    \/ Invoke
    \/ \E o \in AdapterOutcomes : AdapterReturn(o)
    \/ \E raises \in {"none", "TypeError"} : ShowResult(raises)

Spec == Init /\ [][Next]_vars

\* an edited configuration: the credentials are any short text over these words
CredWords == {"YOUR_NEW_API_KEY_HERE", "YOUR_NEW_API_SECRET_HERE", "k"}
Credentials == SeqsUpTo(CredWords, MaxCredLen) \cup {API_KEY, API_SECRET}

InitConfig ==
    /\ pc = "main"
    /\ apiKey \in Credentials
    /\ apiSecret \in Credentials
    /\ startupCalls = <<>>
    /\ choice = <<>>
    /\ args = <<>>
    /\ attempts = 0
    /\ request = NoRequest
    /\ result = NoResult
    /\ log = <<>>
    /\ notice = "none"
    /\ exitCode = 0

SpecConfig == InitConfig /\ [][Next]_vars

----------------------------------------------------------------------------
(* Properties *)

LoopStates == {"menu", "collect", "dispatch", "adapter", "result"}
IsErrorResult(r) == DOMAIN r = {"error"}
CatchAllOnly == {<<"4">>, <<"5">>, <<"6">>}
Last(s) == s[Len(s)]
ArgOf(name) ==
    args[CHOOSE i \in DOMAIN Prompts(choice) : Prompts(choice)[i].name = name]

\* what float() and int() give on the lines they reject, and on the others
FloatFailures == {Coerce("float", line) : line \in {l \in NumLines : ~IsFloatLiteral(l)}}
IntFailures == {Coerce("int", line) : line \in {l \in NumLines : ~IsIntLiteral(l)}}
Failures(input_type) == IF input_type = "float" THEN FloatFailures ELSE IntFailures
AcceptedByFloat == {Coerce("float", line).value : line \in {l \in NumLines : IsFloatLiteral(l)}}
AcceptedByInt == {Coerce("int", line).value : line \in {l \in NumLines : IsIntLiteral(l)}}
Accepted(input_type) == IF input_type = "float" THEN AcceptedByFloat ELSE AcceptedByInt

\* C1: whatever the client call does (returns, raises an API error, an order
\* error or any other error), each facade operation returns to main() with
\* either the payload or an error result, an error result whenever the client
\* raised, and nothing propagates out of the operation.
C1_FacadeAlwaysReturns ==
    [][\A o \in AdapterOutcomes :
          AdapterReturn(o) =>
              /\ pc' = "result"
              /\ IsErrorResult(result') # (result' \in Payloads)
              /\ Raised(o) => IsErrorResult(result')]_vars

\* an operation without an `except BinanceOrderException` clause has turned an
\* order error into an error result
C1_Witness ==
    /\ pc = "result"
    /\ choice \in CatchAllOnly
    /\ IsErrorResult(result)
    /\ \E i \in DOMAIN log : log[i].level = "ERROR" /\ log[i].data[1] = "Exception"
    /\ \E e \in AdapterErrors : e.cls = "BinanceOrderException" /\ result = ErrorResult(e)

\* C2: when the client call returns, the facade operation returns that very
\* payload.
C2_PayloadRoundTrip ==
    [][\A o \in Payloads : AdapterReturn(o) => result' = o]_vars

C2_Witness ==
    /\ pc = "result"
    /\ choice = <<"6">>
    /\ result = [balance |-> 100]

\* C3: every create-order request sent to the client has quantity > 0, and
\* price > 0 (limit), and price > 0 and stop price > 0 (stop-limit).
C3_RequestsArePositive ==
    request.fn = "futures_create_order" =>
        /\ request.quantity > 0
        /\ request.type \in {"LIMIT", "STOP"} => request.price > 0
        /\ request.type = "STOP" => request.stopPrice > 0

\* C4: a line that float() or int() rejects makes get_user_input prompt again
\* for the same field, any number of times in a row, with no facade operation
\* called; an operation is called only with every field of the selection read.
C4_RepromptUntilCoerced ==
    /\ [][(pc = "collect" /\ CurrentField.type \in {"float", "int"}) =>
            \A c \in Failures(CurrentField.type) :
                AfterCoercion(c) =>
                    /\ c.raised = "ValueError"
                    /\ pc' = "collect"
                    /\ choice' = choice
                    /\ args' = args
                    /\ attempts' = attempts + 1
                    /\ request' = NoRequest
                    /\ result' = NoResult]_vars
    /\ [](request # NoRequest =>
            /\ pc \in {"adapter", "result"}
            /\ Len(args) = Len(Prompts(choice)))
    /\ [](pc \in {"dispatch", "adapter", "result"} =>
            /\ Len(args) = Len(Prompts(choice))
            /\ \A i \in DOMAIN args :
                  Prompts(choice)[i].type \in {"float", "int"} =>
                      args[i] \in Accepted(Prompts(choice)[i].type))

\* the same numeric field has been refused MaxAttempts times in a row
C4_Witness ==
    /\ pc = "collect"
    /\ CurrentField.type = "float"
    /\ notice = "invalid_float"
    /\ attempts = MaxAttempts
    /\ request = NoRequest

\* C5: once the menu is up, the process ends only by selection 7; every other
\* selection, every facade result and every error raised in the loop body
\* (rendering the result included) leads back to the menu.
C5_ExitOnlyBySelection7 ==
    [][(pc \in LoopStates) =>
          /\ (IF ReadChoice(<<"7">>)
              THEN pc' = "exit" /\ exitCode' = 0
              ELSE pc' \in LoopStates)
          /\ (pc = "result" => pc' = "menu")
          /\ (\A line \in MenuLines :
                (ReadChoice(line) /\ OpName(line) = "none" /\ line # <<"7">>)
                    => pc' = "menu")]_vars

\* an error raised in the loop body was caught and the menu is shown again
C5_Witness ==
    /\ pc = "menu"
    /\ notice = "main_loop_error"

\* C6: when the client cannot be constructed, or the server-time call or the
\* account-info call raises (-2015 included), the process ends with status 1;
\* nothing runs after the end: no menu, no facade operation.
C6_ConnectivityFailureIsFatal ==
    [][/\ \A e \in AdapterErrors :
            (ConstructClient(e) \/ VerifyTime(e) \/ VerifyAccount(e))
            => /\ pc' = "exit"
               /\ exitCode' = 1
               /\ request' = NoRequest
       /\ pc # "exit"]_vars

\* the account-info call was refused with -2015 and the process has ended
C6_Witness ==
    /\ pc = "exit"
    /\ exitCode = 1
    /\ startupCalls = <<"Client", "futures_time", "futures_account">>
    /\ \E i \in DOMAIN log :
          log[i].text = "API key doesn't have futures permissions or IP not whitelisted"

\* C7: empty or placeholder credentials end the process with status 1 before
\* any adapter call; selection 7 ends it with status 0.
C7_NoCallWithoutCredentials ==
    /\ ( \/ apiKey = <<>> \/ apiSecret = <<>>
         \/ Contains(apiKey, KeyPlaceholder) \/ Contains(apiSecret, SecretPlaceholder) )
       => /\ startupCalls = <<>>
          /\ pc = "exit" => exitCode = 1
    /\ (pc = "exit" /\ choice = <<"7">>) => exitCode = 0

\* C8: the error result of a facade operation carries a non-empty message.
C8_ErrorMessageNonEmpty ==
    (pc = "result" /\ IsErrorResult(result)) => result.error # <<>>

\* C9: each facade call logs its request parameters before the client call
\* and, once the client call is over, the full response or the error.
C9_RequestAndResponseLogged ==
    /\ pc \in {"adapter", "result"} =>
          /\ Len(log) >= 1
          /\ log[1] = RequestRecord(choice, args)
    /\ pc = "result" =>
          \E i \in 2..Len(log) :
              IF IsErrorResult(result)
              THEN log[i].level = "ERROR" /\ Last(log[i].data) = result.error
              ELSE log[i].level = "INFO" /\ Last(log[i].data) = result

SameLetter(a, b) ==
    a = b \/ \E k \in DOMAIN LowerLetters : {a, b} = {LowerLetters[k], UpperLetters[k]}

\* C10: for selections 1-3 the request sent to the client carries the symbol
\* and the quantity as read, the side in upper case, and the kind of the
\* selection: MARKET without price; LIMIT, GTC, price = limit price; STOP,
\* GTC, price = limit price and stopPrice = stop price.
C10_RequestMatchesSelection ==
    /\ []((pc = "adapter" /\ choice = <<"1">>) =>
            request = [fn |-> "futures_create_order", symbol |-> ArgOf("symbol"),
                       side |-> ArgOf("side"), type |-> "MARKET",
                       quantity |-> ArgOf("quantity")])
    /\ []((pc = "adapter" /\ choice = <<"2">>) =>
            request = [fn |-> "futures_create_order", symbol |-> ArgOf("symbol"),
                       side |-> ArgOf("side"), type |-> "LIMIT", timeInForce |-> "GTC",
                       quantity |-> ArgOf("quantity"), price |-> ArgOf("price")])
    /\ []((pc = "adapter" /\ choice = <<"3">>) =>
            request = [fn |-> "futures_create_order", symbol |-> ArgOf("symbol"),
                       side |-> ArgOf("side"), type |-> "STOP", timeInForce |-> "GTC",
                       quantity |-> ArgOf("quantity"), price |-> ArgOf("limit_price"),
                       stopPrice |-> ArgOf("stop_price")])
    /\ [][\A line \in SymbolLines \cup SideLines :
            (ReadField(line) /\ CurrentField.name = "symbol") => Last(args') = line]_vars
    /\ [][\A line \in SideLines :
            (ReadField(line) /\ CurrentField.name = "side") =>
                /\ Len(Last(args')) = Len(line)
                /\ \A i \in DOMAIN line :
                      /\ SameLetter(Last(args')[i], line[i])
                      /\ \A k \in DOMAIN LowerLetters : Last(args')[i] # LowerLetters[k]]_vars

\* a stop-limit request with distinct stop and limit prices, the side typed
\* in lower case
C10_Witness ==
    /\ pc = "adapter"
    /\ choice = <<"3">>
    /\ request.side = <<"B", "U", "Y">>
    /\ request.price = 1 * Pow10(FracDigits)
    /\ request.stopPrice = 1

====
